---- MODULE Spec2Model ----
(***************************************************************************)
(* A state-machine model of remote_ssh.py, the coroutines that wrap an     *)
(* asyncssh connection: connect_ssh, disconnect_ssh, upload_file,          *)
(* download_file, execute_command, check_remote_file, find_file.           *)
(*                                                                         *)
(* Every session has one caller task (one flow of control per session).    *)
(* A coroutine is a sequence of steps, one per await; the transport        *)
(* (asyncssh, the remote host, the local file system) is the environment:  *)
(* what it answers at each await is a nondeterministic choice.             *)
(*                                                                         *)
(* Time is counted in ticks of half a second, so that round() at line 161  *)
(* is not the identity.                                                    *)
(*                                                                         *)
(* Exceptions are named by their Python class.  The spec's error kinds are *)
(* the exceptions the code raises itself, named by where they are raised:  *)
(*   ConnectionError  ValueError raised at line 45                         *)
(*   ExecutionError   ValueError raised at line 173                        *)
(*   TimeoutError     asyncio.TimeoutError raised at line 176              *)
(*   NotFoundError    FileNotFoundError raised at line 118                 *)
(*   TransferError    ValueError raised at line 120                        *)
(* Any other name in an outcome is an exception of the transport or of the *)
(* interpreter that left the coroutine unhandled.                          *)
(***************************************************************************)
EXTENDS Integers, Sequences, FiniteSets, TLC

\* ------------------------------------------------------------------ bounds
MaxRuntime == 5      \* longest remote command, in ticks
MaxTimeout == 2      \* largest timeout argument, in seconds
MaxInterval == 2     \* largest check_interval argument, in seconds
MaxOut == 2          \* longest captured stdout, in bytes or characters
MaxName == 2         \* longest file name and longest prefix, in characters
MaxList == 2         \* longest directory listing, in entries
TicksPerSec == 2     \* the resolution of the clock

Sessions == {"s1", "s2"}
Driven == {"s1"}     \* the sessions whose caller task runs under Spec

None == "None"

\* ------------------------------------------------------------- exceptions
\* asyncssh.Error and its subclasses (SFTPError is one of them).
SSHErrors == {"ChannelOpenError", "ConnectionLost", "PermissionDenied",
              "SFTPFailure", "SFTPNoSuchFile"}
\* asyncssh.SFTPError and its subclasses.
SFTPErrors == {"SFTPFailure", "SFTPNoSuchFile"}

IsSSHError(e) == e \in SSHErrors
IsSFTPError(e) == e \in SFTPErrors
IsFileNotFound(e) == e = "FileNotFoundError"
IsTimeout(e) == e = "TimeoutError"

\* ------------------------------------------------------------------ values
\* A captured stream is text (code points: A, e-acute) or bytes (A, and the
\* two bytes 0xC3 0xA9 that encode e-acute in UTF-8, in any arrangement).
Alphabet(type) == IF type = "bytes" THEN {65, 195, 169} ELSE {65, 233}
Streams == { st \in [type : {"str", "bytes"}, data : UNION {[1..n -> {65, 169, 195, 233}] : n \in 0..MaxOut}] :
               \A i \in 1..Len(st.data) : st.data[i] \in Alphabet(st.type) }
\* What a command writes to standard error (of the type of its standard output).
ErrData == {<<>>, <<65>>}
ExitStatuses == {0, 1}
\* Optional[int]: <<>> is None, <<n>> is the integer n.
Timeouts == {<<>>} \cup {<<t>> : t \in 0..MaxTimeout}
Intervals == 1..MaxInterval
\* File names and prefixes are strings over two letters; a directory listing
\* is a sequence of distinct names, in the order the server gives them.
Letters == {"a", "b"}
Names == UNION {[1..n -> Letters] : n \in 1..MaxName}
Prefixes == UNION {[1..n -> Letters] : n \in 0..MaxName}
Listings == { l \in UNION {[1..n -> Names] : n \in 0..MaxList} :
                \A i, j \in 1..Len(l) : l[i] = l[j] => i = j }

NoCall == [op |-> "none", wait |-> FALSE, timeout |-> <<>>, interval |-> 1,
           prefix |-> <<>>]
NoProc == [chan |-> "none", state |-> "none", runtime |-> 0, elapsed |-> 0,
           exit |-> <<>>, out |-> [type |-> "str", data |-> <<>>],
           err |-> [type |-> "str", data |-> <<>>], reads |-> <<>>]
NoOutcome == [kind |-> "none", val |-> None, exc |-> None, cause |-> None]
NoFacts == [local |-> FALSE, dir |-> FALSE, remote |-> FALSE, listing |-> <<>>]

Returned(v) == [kind |-> "return", val |-> v, exc |-> None, cause |-> None]
Raised(e, c) == [kind |-> "raise", val |-> None, exc |-> e, cause |-> c]

VARIABLES
    conn,      \* conn[s]: the transport session: "none" (the caller holds no
               \* session, ssh_client is None), "open", "closing", "closed"
    pc,        \* pc[s]: where the caller task of s is
    call,      \* call[s]: the arguments of the call in progress (or last made)
    proc,      \* proc[s]: the process channel of the execute_command call;
               \* proc[s].reads: what the wait branch has taken from it, in order
    sftp,      \* sftp[s]: the file-transfer channel: "none", "open", "closed"
    facts,     \* facts[s]: what holds of the files the transfer call names
    pend,      \* pend[s]: the return value or exception leaving an async-with body
    outcome    \* outcome[s]: how the last call ended

vars == <<conn, pc, call, proc, sftp, facts, pend, outcome>>

Init ==
    /\ conn = [s \in Sessions |-> "none"]
    /\ pc = [s \in Sessions |-> "idle"]
    /\ call = [s \in Sessions |-> NoCall]
    /\ proc = [s \in Sessions |-> NoProc]
    /\ sftp = [s \in Sessions |-> "none"]
    /\ facts = [s \in Sessions |-> NoFacts]
    /\ pend = [s \in Sessions |-> NoOutcome]
    /\ outcome = [s \in Sessions |-> NoOutcome]

\* A call begins: the caller task leaves "idle" with fresh per-call state.
Begin(s, c, at) ==
    /\ pc[s] = "idle"
    /\ call' = [call EXCEPT ![s] = c]
    /\ pc' = [pc EXCEPT ![s] = at]
    /\ proc' = [proc EXCEPT ![s] = NoProc]
    /\ sftp' = [sftp EXCEPT ![s] = "none"]
    /\ pend' = [pend EXCEPT ![s] = NoOutcome]
    /\ outcome' = [outcome EXCEPT ![s] = NoOutcome]

\* A call ends with outcome o.
Finish(s, o) ==
    /\ outcome' = [outcome EXCEPT ![s] = o]
    /\ pc' = [pc EXCEPT ![s] = "idle"]

\* ------------------------------------------------------------- connect_ssh
\* What asyncssh.connect answers: a session, an asyncssh.Error (authentication
\* or protocol failure) or an OSError (the TCP connection could not be made).
ConnectAnswers == {"ok", "PermissionDenied", "OSError"}

\* try/except of lines 31-45.
ConnectHandler(e) ==
    IF IsSSHError(e) THEN Raised("ConnectionError", e) ELSE Raised(e, None)

ConnectStart(s) ==
    /\ conn[s] = "none"
    /\ Begin(s, [NoCall EXCEPT !.op = "connect"], "connect")
    /\ facts' = [facts EXCEPT ![s] = NoFacts]
    /\ UNCHANGED conn

Connect(s) ==
    /\ pc[s] = "connect"
    /\ \E a \in ConnectAnswers :
         IF a = "ok"
         THEN /\ conn' = [conn EXCEPT ![s] = "open"]
              /\ Finish(s, Returned("session"))
         ELSE /\ conn' = conn
              /\ Finish(s, ConnectHandler(a))
    /\ UNCHANGED <<call, proc, sftp, facts, pend>>

\* ---------------------------------------------------------- disconnect_ssh
\* Line 62.
\* (Variant: the test of line 62 left out.)
DisconnectGuardNone(client) == TRUE
DisconnectGuard(client) == client # "none"

\* Line 64: wait_closed() is over once the connection is closed.
\* (Variant: line 64 not awaited.)
WaitClosedDoneEarly(c) == TRUE
WaitClosedDone(c) == c = "closed"

\* Line 63: close() acts on the connection passed in, and on no other.
\* (Variant: one module-level connection shared by every caller.)
ClosedByShared(s) == Sessions
ClosedBy(s) == {s}

DisconnectStart(s) ==
    /\ Begin(s, [NoCall EXCEPT !.op = "disconnect"], "disc_close")
    /\ facts' = [facts EXCEPT ![s] = NoFacts]
    /\ UNCHANGED conn

\* Lines 62-63: close() asks for the shutdown; on a connection already
\* closing or closed it does nothing.  None has no close().
DisconnectClose(s) ==
    /\ pc[s] = "disc_close"
    /\ IF ~DisconnectGuard(conn[s])
       THEN /\ Finish(s, Returned(None))
            /\ conn' = conn
       ELSE IF conn[s] = "none"
       THEN /\ Finish(s, Raised("AttributeError", None))
            /\ conn' = conn
       ELSE /\ conn' = [t \in Sessions |->
                         IF t \in ClosedBy(s) /\ conn[t] = "open" THEN "closing" ELSE conn[t]]
            /\ pc' = [pc EXCEPT ![s] = "disc_wait"]
            /\ outcome' = outcome
    /\ UNCHANGED <<call, proc, sftp, facts, pend>>

\* Lines 64-65.
DisconnectWait(s) ==
    /\ pc[s] = "disc_wait"
    /\ WaitClosedDone(conn[s])
    /\ Finish(s, Returned(None))
    /\ UNCHANGED <<conn, call, proc, sftp, facts, pend>>

\* The transport finishes the teardown that close() asked for.
Teardown(s) ==
    /\ conn[s] = "closing"
    /\ conn' = [conn EXCEPT ![s] = "closed"]
    /\ UNCHANGED <<pc, call, proc, sftp, facts, pend, outcome>>

\* The connection is lost: the session is closed and a running process
\* channel is closed with it, without an exit status.
ConnLost(s) ==
    /\ conn[s] = "open"
    /\ conn' = [conn EXCEPT ![s] = "closed"]
    /\ proc' = [proc EXCEPT ![s] = IF @.chan = "open" /\ @.state = "running"
                                   THEN [@ EXCEPT !.state = "lost"] ELSE @]
    /\ UNCHANGED <<pc, call, sftp, facts, pend, outcome>>

\* --------------------------------------------------------- execute_command
Min(a, b) == IF a <= b THEN a ELSE b

\* round() of line 161 on a duration of `ticks` ticks: to the nearest whole
\* second, a half going to the even neighbour.
RoundSecs(ticks) ==
    LET q == ticks \div TicksPerSec
        r == ticks % TicksPerSec
    IN  IF 2 * r < TicksPerSec THEN q
        ELSE IF 2 * r > TicksPerSec THEN q + 1
        ELSE IF q % 2 = 0 THEN q ELSE q + 1

\* bytes.decode('utf-8', errors='replace') on one- and two-byte sequences:
\* an ASCII byte is its own code point, a lead byte 110xxxxx followed by a
\* continuation byte 10xxxxxx is one code point, any other byte becomes U+FFFD.
IsCont(b) == 128 <= b /\ b < 192
IsLead(b) == 194 <= b /\ b < 224
RECURSIVE DecodeBytes(_)
DecodeBytes(bs) ==
    IF bs = <<>> THEN <<>>
    ELSE IF bs[1] < 128 THEN <<bs[1]>> \o DecodeBytes(Tail(bs))
    ELSE IF IsLead(bs[1]) /\ Len(bs) >= 2 /\ IsCont(bs[2])
         THEN <<(bs[1] - 192) * 64 + (bs[2] - 128)>> \o DecodeBytes(Tail(Tail(bs)))
    ELSE <<65533>> \o DecodeBytes(Tail(bs))

\* Line 164: bytes are decoded as UTF-8 with errors='replace', text is
\* passed through.
\* (Variant: the bytes returned as they are.)
DecodeRaw(st) == st.data
Decode(st) == IF st.type = "bytes" THEN DecodeBytes(st.data) ELSE st.data

\* Line 145: the branch taken once the process channel is open.
\* (Variant: wait_for_response ignored.)
BranchAlwaysWait(c) == "exec_wait"
Branch(c) == IF c.wait THEN "exec_wait" ELSE "exec_poll"

\* Lines 147-148: asyncio.wait_for gives up once `timeout` seconds have passed.
\* (Variant: the timeout never enforced.)
ExpiredNever(c, now) == FALSE
Expired(c, now) == c.timeout # <<>> /\ now >= c.timeout[1] * TicksPerSec

\* Line 167: the exit status has been reported.
\* (Variant: the loop of line 167 never entered.)
ExitStatusReadyAlways(p) == TRUE
ExitStatusReady(p) == p.exit # <<>>

\* except clauses of lines 171-176, tried in order.
\* (Variant: the clause of line 171 missing.)
ExecuteHandlerNoSSH(e) ==
    IF IsTimeout(e) THEN Raised("TimeoutError", e) ELSE Raised(e, None)
\* (Variant: the timeout folded into the first clause.)
ExecuteHandlerFolded(e) ==
    IF IsSSHError(e) \/ IsTimeout(e) THEN Raised("ExecutionError", e)
    ELSE Raised(e, None)
ExecuteHandler(e) ==
    IF IsSSHError(e) THEN Raised("ExecutionError", e)
    ELSE IF IsTimeout(e) THEN Raised("TimeoutError", e)
    ELSE Raised(e, None)

\* Lines 152-155: the statement that follows each one of the wait branch.
\* (Variant: stderr read before stdout.)
ReadOrderSwapped(at) ==
    CASE at = "exec_wait" -> "exec_stderr"
      [] at = "exec_stderr" -> "exec_stdout"
      [] at = "exec_stdout" -> "exec_status"
ReadOrder(at) ==
    CASE at = "exec_wait" -> "exec_stdout"
      [] at = "exec_stdout" -> "exec_stderr"
      [] at = "exec_stderr" -> "exec_status"

\* Line 176: the TimeoutError raised carries the `timeout` argument in its
\* message (kept in the outcome's val).
\* (Variant: the message without the value.)
CarryNothing(o, c) == IF o.exc = "TimeoutError" THEN [o EXCEPT !.val = <<>>] ELSE o
Carry(o, c) == IF o.exc = "TimeoutError" THEN [o EXCEPT !.val = c.timeout] ELSE o

ExecStart(s) ==
    /\ conn[s] # "none"
    /\ \E w \in BOOLEAN, t \in Timeouts, i \in Intervals :
         Begin(s, [NoCall EXCEPT !.op = "execute", !.wait = w, !.timeout = t, !.interval = i],
               "exec_open")
    /\ facts' = [facts EXCEPT ![s] = NoFacts]
    /\ UNCHANGED conn

\* Line 144, create_process: on a connection that is not open, or when the
\* server refuses the channel, it raises ChannelOpenError before the
\* async-with body is entered.  Otherwise the command starts; `runtime` is
\* how long it will run.
ExecOpen(s) ==
    /\ pc[s] = "exec_open"
    /\ \/ /\ pend' = [pend EXCEPT ![s] = Raised("ChannelOpenError", None)]
          /\ Finish(s, ExecuteHandler("ChannelOpenError"))
          /\ proc' = proc
       \/ /\ conn[s] = "open"
          /\ \E r \in 0..MaxRuntime :
               proc' = [proc EXCEPT ![s] = [NoProc EXCEPT !.chan = "open", !.state = "running", !.runtime = r]]
          /\ pc' = [pc EXCEPT ![s] = Branch(call[s])]
          /\ UNCHANGED <<pend, outcome>>
    /\ UNCHANGED <<conn, call, sftp, facts>>

\* Time passes while the task waits at line 148 or 150.
Tick(s) ==
    /\ pc[s] = "exec_wait"
    /\ proc[s].state = "running"
    /\ proc[s].elapsed < proc[s].runtime
    /\ ~Expired(call[s], proc[s].elapsed)
    /\ proc' = [proc EXCEPT ![s].elapsed = @ + 1]
    /\ UNCHANGED <<conn, pc, call, sftp, facts, pend, outcome>>

\* The remote command ends: it reports its exit status and its output and
\* the server closes the channel.
ProcExit(s) ==
    /\ proc[s].chan = "open"
    /\ proc[s].state = "running"
    /\ proc[s].elapsed >= proc[s].runtime
    /\ \E e \in ExitStatuses, o \in Streams, er \in ErrData :
         proc' = [proc EXCEPT ![s].state = "exited", ![s].exit = <<e>>, ![s].out = o,
                              ![s].err = [type |-> o.type, data |-> er]]
    /\ UNCHANGED <<conn, pc, call, sftp, facts, pend, outcome>>

\* Lines 148/150-152: wait_closed() is over, the end time is taken.
WaitDone(s) ==
    /\ pc[s] = "exec_wait"
    /\ proc[s].state \in {"exited", "lost"}
    /\ pc' = [pc EXCEPT ![s] = ReadOrder("exec_wait")]
    /\ proc' = [proc EXCEPT ![s].reads = Append(@, "wait")]
    /\ UNCHANGED <<conn, call, sftp, facts, pend, outcome>>

\* Line 148: wait_for gives up and raises asyncio.TimeoutError.
WaitTimeout(s) ==
    /\ pc[s] = "exec_wait"
    /\ Expired(call[s], proc[s].elapsed)
    /\ pend' = [pend EXCEPT ![s] = Raised("TimeoutError", None)]
    /\ pc' = [pc EXCEPT ![s] = "exec_exit"]
    /\ UNCHANGED <<conn, call, proc, sftp, facts, outcome>>

\* A read on a channel the connection loss closed may raise the loss.
ReadStream(s, at, what) ==
    /\ pc[s] = at
    /\ proc' = [proc EXCEPT ![s].reads = Append(@, what)]
    /\ \/ /\ pc' = [pc EXCEPT ![s] = ReadOrder(at)]
          /\ pend' = pend
       \/ /\ proc[s].state = "lost"
          /\ pend' = [pend EXCEPT ![s] = Raised("ConnectionLost", None)]
          /\ pc' = [pc EXCEPT ![s] = "exec_exit"]
    /\ UNCHANGED <<conn, call, sftp, facts, outcome>>

\* Line 153.
ReadStdout(s) == ReadStream(s, "exec_stdout", "stdout")
\* Line 154.
ReadStderr(s) == ReadStream(s, "exec_stderr", "stderr")

\* Lines 155-164.
ExecReturn(s) ==
    /\ pc[s] = "exec_status"
    /\ pend' = [pend EXCEPT ![s] =
                  Returned([out |-> Decode(proc[s].out), status |-> proc[s].exit,
                            time |-> RoundSecs(proc[s].elapsed)])]
    /\ pc' = [pc EXCEPT ![s] = "exec_exit"]
    /\ proc' = [proc EXCEPT ![s].reads = Append(@, "status")]
    /\ UNCHANGED <<conn, call, sftp, facts, outcome>>

\* Lines 167 and 169.
Poll(s) ==
    /\ pc[s] = "exec_poll"
    /\ IF ExitStatusReady(proc[s])
       THEN /\ pend' = [pend EXCEPT ![s] = Returned([out |-> <<>>, status |-> proc[s].exit, time |-> 0])]
            /\ pc' = [pc EXCEPT ![s] = "exec_exit"]
       ELSE /\ pend' = pend
            /\ pc' = [pc EXCEPT ![s] = "exec_sleep"]
    /\ UNCHANGED <<conn, call, proc, sftp, facts, outcome>>

\* Line 168: check_interval seconds pass (the clock stops at MaxRuntime).
Sleep(s) ==
    /\ pc[s] = "exec_sleep"
    /\ proc' = [proc EXCEPT ![s].elapsed = Min(@ + call[s].interval * TicksPerSec, MaxRuntime)]
    /\ pc' = [pc EXCEPT ![s] = "exec_poll"]
    /\ UNCHANGED <<conn, call, sftp, facts, pend, outcome>>

\* Leaving the async-with of line 144 closes the process channel; then the
\* value is returned or the exception goes through lines 171-176.
\* Leaving an `async with` block (lines 144, 84, 112, 190, 210), by its end,
\* a return or an exception: the block's channel is closed and waited for.
\* (Variant: the channel opened without `async with`.)
ChannelAfterExitKept(ch) == ch
ChannelAfterExit(ch) == "closed"

\* The same exit leaves the connection the channel was opened on as it is.
\* (Variant: the connection closed with the channel.)
SessionAfterExitClosed(c) == IF c = "open" THEN "closed" ELSE c
SessionAfterExit(c) == c

ExecExit(s) ==
    /\ pc[s] = "exec_exit"
    /\ proc' = [proc EXCEPT ![s].chan = ChannelAfterExit(@)]
    /\ conn' = [conn EXCEPT ![s] = SessionAfterExit(@)]
    /\ Finish(s, IF pend[s].kind = "raise"
                  THEN Carry(ExecuteHandler(pend[s].exc), call[s]) ELSE pend[s])
    /\ UNCHANGED <<call, sftp, facts, pend>>

\* ------------------------------------- upload_file, download_file, check_remote_file
\* except clauses of lines 88-93, tried in order.
UploadHandler(e) ==
    IF IsFileNotFound(e) THEN Returned(FALSE)
    ELSE IF IsSFTPError(e) THEN Returned(FALSE)
    ELSE Raised(e, None)

\* except clauses of lines 117-120, tried in order.
DownloadHandler(e) ==
    IF IsFileNotFound(e) THEN Raised("NotFoundError", e)
    ELSE IF IsSFTPError(e) THEN Raised("TransferError", e)
    ELSE Raised(e, None)

\* except clause of lines 192-193.
CheckHandler(e) ==
    IF IsSFTPError(e) THEN Returned(FALSE) ELSE Raised(e, None)

\* except clause of lines 216-217.
FindHandler(e) ==
    IF IsSFTPError(e) THEN Returned(<<>>) ELSE Raised(e, None)

Handler(op, e) ==
    CASE op = "upload" -> UploadHandler(e)
      [] op = "download" -> DownloadHandler(e)
      [] op = "check" -> CheckHandler(e)
      [] op = "find" -> FindHandler(e)

\* Line 213, str.startswith.
StartsWith(name, prefix) ==
    /\ Len(prefix) <= Len(name)
    /\ SubSeq(name, 1, Len(prefix)) = prefix

\* Lines 212-215: the first name of the listing that starts with the prefix,
\* as Optional[str]: <<>> is None, <<name>> is the name.
RECURSIVE FirstMatch(_, _)
FirstMatch(list, prefix) ==
    IF list = <<>> THEN <<>>
    ELSE IF StartsWith(Head(list), prefix) THEN <<Head(list)>>
    ELSE FirstMatch(Tail(list), prefix)

\* facts.local: the local file exists (upload: the file to send; download:
\* the destination file); facts.dir: the local folder of a download exists;
\* facts.remote: the remote path exists.
UploadStart(s) ==
    /\ conn[s] # "none"
    /\ Begin(s, [NoCall EXCEPT !.op = "upload"], "sftp_open")
    /\ \E l \in BOOLEAN : facts' = [facts EXCEPT ![s] = [NoFacts EXCEPT !.local = l]]
    /\ UNCHANGED conn

DownloadStart(s) ==
    /\ conn[s] # "none"
    /\ Begin(s, [NoCall EXCEPT !.op = "download"], "sftp_open")
    /\ \E r \in BOOLEAN, d \in BOOLEAN :
         facts' = [facts EXCEPT ![s] = [NoFacts EXCEPT !.remote = r, !.dir = d]]
    /\ UNCHANGED conn

CheckStart(s) ==
    /\ conn[s] # "none"
    /\ Begin(s, [NoCall EXCEPT !.op = "check"], "sftp_open")
    /\ \E r \in BOOLEAN : facts' = [facts EXCEPT ![s] = [NoFacts EXCEPT !.remote = r]]
    /\ UNCHANGED conn

FindStart(s) ==
    /\ conn[s] # "none"
    /\ \E p \in Prefixes : Begin(s, [NoCall EXCEPT !.op = "find", !.prefix = p], "sftp_open")
    /\ facts' = [facts EXCEPT ![s] = NoFacts]
    /\ UNCHANGED conn

\* Lines 84, 112, 190, 210, start_sftp_client: on a connection that is not open,
\* or when the server refuses the sftp subsystem, opening the session channel
\* raises ChannelOpenError (an asyncssh.Error that is not an SFTPError) before
\* the async-with body is entered.
SftpOpen(s) ==
    /\ pc[s] = "sftp_open"
    /\ \/ /\ pend' = [pend EXCEPT ![s] = Raised("ChannelOpenError", None)]
          /\ Finish(s, Handler(call[s].op, "ChannelOpenError"))
          /\ sftp' = sftp
       \/ /\ conn[s] = "open"
          /\ sftp' = [sftp EXCEPT ![s] = "open"]
          /\ pc' = [pc EXCEPT ![s] = "sftp_op"]
          /\ UNCHANGED <<pend, outcome>>
    /\ UNCHANGED <<conn, call, proc, facts>>

\* Lines 85-87, sftp_client.put: a missing local file raises
\* FileNotFoundError, a protocol failure an SFTPError.
Put(s) ==
    /\ pc[s] = "sftp_op"
    /\ call[s].op = "upload"
    /\ \/ /\ ~facts[s].local
          /\ pend' = [pend EXCEPT ![s] = Raised("FileNotFoundError", None)]
          /\ facts' = facts
       \/ /\ facts[s].local
          /\ \/ /\ pend' = [pend EXCEPT ![s] = Returned(TRUE)]
                /\ facts' = [facts EXCEPT ![s].remote = TRUE]
             \/ /\ pend' = [pend EXCEPT ![s] = Raised("SFTPFailure", None)]
                /\ facts' = facts
    /\ pc' = [pc EXCEPT ![s] = "sftp_exit"]
    /\ UNCHANGED <<conn, call, proc, sftp, outcome>>

\* Lines 113-115, sftp_client.get then os.path.exists: a missing remote path
\* raises SFTPNoSuchFile (an SFTPError), a missing local folder raises
\* FileNotFoundError when the destination is opened, a protocol failure
\* raises an SFTPError.  After a get that raised nothing the destination is
\* there unless something else removed it before line 115 looks.
Get(s) ==
    /\ pc[s] = "sftp_op"
    /\ call[s].op = "download"
    /\ \/ /\ ~facts[s].remote
          /\ pend' = [pend EXCEPT ![s] = Raised("SFTPNoSuchFile", None)]
          /\ facts' = facts
       \/ /\ facts[s].remote /\ ~facts[s].dir
          /\ pend' = [pend EXCEPT ![s] = Raised("FileNotFoundError", None)]
          /\ facts' = facts
       \/ /\ facts[s].remote /\ facts[s].dir
          /\ \/ \E present \in BOOLEAN :
                  /\ facts' = [facts EXCEPT ![s].local = present]
                  /\ pend' = [pend EXCEPT ![s] = Returned(present)]
             \/ /\ pend' = [pend EXCEPT ![s] = Raised("SFTPFailure", None)]
                /\ facts' = facts
    /\ pc' = [pc EXCEPT ![s] = "sftp_exit"]
    /\ UNCHANGED <<conn, call, proc, sftp, outcome>>

\* Line 191, sftp_client.exists: false for a path that is not there (its
\* parent directory included), an SFTPError on any other protocol failure.
Exists(s) ==
    /\ pc[s] = "sftp_op"
    /\ call[s].op = "check"
    /\ \/ pend' = [pend EXCEPT ![s] = Returned(facts[s].remote)]
       \/ pend' = [pend EXCEPT ![s] = Raised("SFTPFailure", None)]
    /\ pc' = [pc EXCEPT ![s] = "sftp_exit"]
    /\ UNCHANGED <<conn, call, proc, sftp, facts, outcome>>

\* Lines 211-215, sftp_client.listdir then the search: a missing directory
\* raises SFTPNoSuchFile, any other protocol failure an SFTPError; otherwise
\* the server gives the listing (facts.remote: the directory exists,
\* facts.listing: the names it gave).
Listdir(s) ==
    /\ pc[s] = "sftp_op"
    /\ call[s].op = "find"
    /\ \/ /\ \E e \in {"SFTPNoSuchFile", "SFTPFailure"} :
               pend' = [pend EXCEPT ![s] = Raised(e, None)]
          /\ facts' = facts
       \/ \E l \in Listings :
            /\ facts' = [facts EXCEPT ![s].remote = TRUE, ![s].listing = l]
            /\ pend' = [pend EXCEPT ![s] = Returned(FirstMatch(l, call[s].prefix))]
    /\ pc' = [pc EXCEPT ![s] = "sftp_exit"]
    /\ UNCHANGED <<conn, call, proc, sftp, outcome>>

\* Leaving the async-with closes the file-transfer channel; then the value is
\* returned or the exception goes through the except clauses.
SftpExit(s) ==
    /\ pc[s] = "sftp_exit"
    /\ sftp' = [sftp EXCEPT ![s] = ChannelAfterExit(@)]
    /\ conn' = [conn EXCEPT ![s] = SessionAfterExit(@)]
    /\ Finish(s, IF pend[s].kind = "raise" THEN Handler(call[s].op, pend[s].exc) ELSE pend[s])
    /\ UNCHANGED <<call, proc, facts, pend>>

\* ------------------------------------------------------------ specification
Next ==
    \E s \in Driven :
        \/ ConnectStart(s) \/ Connect(s)
        \/ DisconnectStart(s) \/ DisconnectClose(s) \/ DisconnectWait(s)
        \/ Teardown(s) \/ ConnLost(s)
        \/ ExecStart(s) \/ ExecOpen(s) \/ Tick(s) \/ ProcExit(s)
        \/ WaitDone(s) \/ WaitTimeout(s) \/ ReadStdout(s) \/ ReadStderr(s)
        \/ ExecReturn(s) \/ Poll(s) \/ Sleep(s) \/ ExecExit(s)
        \/ UploadStart(s) \/ DownloadStart(s) \/ CheckStart(s) \/ FindStart(s)
        \/ SftpOpen(s) \/ Put(s) \/ Get(s) \/ Exists(s) \/ Listdir(s) \/ SftpExit(s)

Spec == Init /\ [][Next]_vars

\* Two sessions driven by interleaved callers.  Each session connects, runs
\* commands in either mode and disconnects; the inputs are narrowed to one
\* timeout, two runtimes and one output so that the product of the two
\* sessions stays small.
TwoTimeouts == {<<>>, <<1>>}
TwoRuntimes == {1, MaxRuntime}
TwoOutput == [type |-> "bytes", data |-> <<195, 169>>]

NextTwo ==
    \E s \in Sessions :
        \/ ConnectStart(s) \/ Connect(s)
        \/ DisconnectStart(s) \/ DisconnectClose(s) \/ DisconnectWait(s)
        \/ Teardown(s) \/ ConnLost(s)
        \/ /\ ExecStart(s)
           /\ call'[s].timeout \in TwoTimeouts /\ call'[s].interval = 1
           /\ ~call'[s].wait => call'[s].timeout = <<>>
        \/ ExecOpen(s) /\ (proc'[s].chan = "open" => proc'[s].runtime \in TwoRuntimes)
        \/ Tick(s)
        \/ ProcExit(s) /\ proc'[s].exit = <<1>> /\ proc'[s].out = TwoOutput /\ proc'[s].err.data = <<>>
        \/ WaitDone(s) \/ WaitTimeout(s) \/ ReadStdout(s) \/ ReadStderr(s)
        \/ ExecReturn(s) \/ Poll(s) \/ Sleep(s) \/ ExecExit(s)

SpecTwo == Init /\ [][NextTwo]_vars

\* ------------------------------------------------------------------ claims
\* The finished call of session s.
Done(s, op) == call[s].op = op /\ pc[s] = "idle" /\ outcome[s].kind # "none"
\* wait_for's deadline of the call of s, in ticks.
Deadline(s) == call[s].timeout[1] * TicksPerSec

\* C1: an execute_command call with wait_for_response=true and a timeout,
\* whose process channel was opened and was not cut by a connection loss
\* (the transport errors are C2's), fails with TimeoutError when the timeout
\* is smaller than the command's runtime, and returns with a rounded elapsed
\* time <= timeout when the timeout is larger than the runtime.
C1_TimeoutDecidesWait ==
    \A s \in Sessions :
        ( /\ Done(s, "execute") /\ call[s].wait /\ call[s].timeout # <<>>
          /\ proc[s].chan # "none" /\ proc[s].state # "lost" )
        => /\ Deadline(s) < proc[s].runtime
                => outcome[s].kind = "raise" /\ outcome[s].exc = "TimeoutError"
           /\ Deadline(s) > proc[s].runtime
                => /\ outcome[s].kind = "return"
                   /\ outcome[s].val.time <= call[s].timeout[1]

\* A waited call gave up on a command that was still running at its deadline.
C1_Witness ==
    /\ Done("s1", "execute") /\ call["s1"].wait /\ call["s1"].timeout = <<1>>
    /\ proc["s1"].runtime > Deadline("s1") /\ proc["s1"].state = "running"
    /\ outcome["s1"].exc = "TimeoutError"

\* C2: when execute_command raises, the caller sees ExecutionError wrapping
\* the transport's exception (raised on opening the channel or on waiting and
\* reading) or, only when wait_for expired, TimeoutError; never the raw
\* transport exception, never a timeout as ExecutionError, never a transport
\* error as TimeoutError.
C2_ErrorKinds ==
    \A s \in Sessions :
        (Done(s, "execute") /\ outcome[s].kind = "raise")
        => /\ pend[s].kind = "raise"
           /\ IF pend[s].exc = "TimeoutError"
              THEN /\ outcome[s].exc = "TimeoutError"
                   /\ call[s].wait /\ call[s].timeout # <<>>
                   /\ proc[s].elapsed >= Deadline(s)
              ELSE /\ pend[s].exc \in {"ChannelOpenError", "ConnectionLost"}
                   /\ outcome[s].exc = "ExecutionError"
                   /\ outcome[s].cause = pend[s].exc

\* A connection lost during the wait surfaced as ExecutionError.
C2_Witness ==
    /\ Done("s1", "execute") /\ proc["s1"].state = "lost"
    /\ outcome["s1"].exc = "ExecutionError" /\ outcome["s1"].cause = "ConnectionLost"

\* C3: an execute_command call with wait_for_response=false that returns,
\* returns ("", exit status, 0.0): the output is empty whatever the command
\* wrote, the exit status is the one the process reported, and the process
\* has exited by the time the return value is formed.
C3_NoWaitResult ==
    \A s \in Sessions :
        LET r == IF pc[s] = "exec_exit" THEN pend[s] ELSE outcome[s]
        IN  ( /\ call[s].op = "execute" /\ ~call[s].wait
              /\ pc[s] \in {"exec_exit", "idle"} /\ r.kind = "return" )
            => /\ r.val.out = <<>> /\ r.val.time = 0
               /\ proc[s].state = "exited"
               /\ proc[s].exit # <<>> /\ r.val.status = proc[s].exit

\* A no-wait call returned for a command that wrote output and exited with 1.
C3_Witness ==
    /\ Done("s1", "execute") /\ ~call["s1"].wait /\ outcome["s1"].kind = "return"
    /\ proc["s1"].out.data # <<>> /\ outcome["s1"].val.status = <<1>>

\* C4: an execute_command call with wait_for_response=false never ends in
\* TimeoutError, whatever its timeout argument and however long the command runs.
C4_NoWaitNeverTimesOut ==
    \A s \in Sessions :
        (call[s].op = "execute" /\ ~call[s].wait)
        => /\ pend[s].exc # "TimeoutError"
           /\ outcome[s].exc # "TimeoutError"

\* A no-wait call with timeout 0 returned for a command that ran MaxRuntime ticks.
C4_Witness ==
    /\ Done("s1", "execute") /\ ~call["s1"].wait /\ call["s1"].timeout = <<0>>
    /\ proc["s1"].runtime = MaxRuntime /\ outcome["s1"].kind = "return"

\* C5: a connect_ssh call that fails, fails with ConnectionError wrapping the
\* transport's exception and leaves the caller without a session; a call that
\* returns leaves the caller with a session.
C5_ConnectFailure ==
    \A s \in Sessions :
        Done(s, "connect")
        => IF outcome[s].kind = "raise"
           THEN /\ outcome[s].exc = "ConnectionError"
                /\ outcome[s].cause # None
                /\ conn[s] = "none"
           ELSE conn[s] # "none"

\* C6: disconnect_ssh never raises: with no session, on a closed session, on
\* a session just connected.
C6_DisconnectNeverRaises ==
    \A s \in Sessions :
        Done(s, "disconnect") => outcome[s].kind = "return"

\* disconnect_ssh(None) returned.
C6_Witness ==
    /\ Done("s1", "disconnect") /\ conn["s1"] = "none"
    /\ outcome["s1"].kind = "return"

\* C7: disconnect_ssh on a session asks for the close before it waits, and
\* has returned only when the session is fully closed.
C7_DisconnectSynchronous ==
    \A s \in Sessions :
        /\ pc[s] = "disc_wait" => conn[s] \in {"closing", "closed"}
        /\ (Done(s, "disconnect") /\ conn[s] # "none" /\ outcome[s].kind = "return")
               => conn[s] = "closed"

\* disconnect_ssh returned on a session, which is closed.
C7_Witness ==
    /\ Done("s1", "disconnect") /\ outcome["s1"].kind = "return"
    /\ conn["s1"] = "closed"

\* C8: a download_file call whose file-transfer channel was opened fails with
\* NotFoundError when the remote path does not exist, with TransferError on
\* any other protocol error, and returns whether the destination file is
\* there after the transfer.
C8_DownloadOutcomes ==
    \A s \in Sessions :
        (Done(s, "download") /\ sftp[s] # "none")
        => /\ ~facts[s].remote
                => outcome[s].kind = "raise" /\ outcome[s].exc = "NotFoundError"
           /\ (facts[s].remote /\ pend[s].exc = "SFTPFailure")
                => outcome[s].kind = "raise" /\ outcome[s].exc = "TransferError"
           /\ outcome[s].kind = "return" => outcome[s].val = facts[s].local

\* C9: upload_file never raises: it returns false when the local file is
\* missing or the transfer fails (opening the file-transfer channel
\* included), and true only when the put completed.
C9_UploadNeverRaises ==
    \A s \in Sessions :
        Done(s, "upload")
        => /\ outcome[s].kind = "return"
           /\ outcome[s].val = (pend[s].kind = "return")

\* C10: check_remote_file never raises: it returns false on any protocol
\* error (opening the file-transfer channel included) and otherwise the
\* result of the existence check.
C10_CheckNeverRaises ==
    \A s \in Sessions :
        Done(s, "check")
        => /\ outcome[s].kind = "return"
           /\ outcome[s].val = (pend[s].kind = "return" /\ facts[s].remote)

\* C11: find_file never raises: it returns the first name of the listing, in
\* listing order, that starts with the prefix, and nothing when no name does
\* or when the listing fails (opening the file-transfer channel included).
C11_FindFirstNeverRaises ==
    \A s \in Sessions :
        Done(s, "find")
        => /\ outcome[s].kind = "return"
           /\ LET l == facts[s].listing
                   p == call[s].prefix
                   hits == {i \in 1..Len(l) : Len(p) <= Len(l[i]) /\ SubSeq(l[i], 1, Len(p)) = p}
               IN  IF pend[s].kind = "raise" \/ hits = {}
                   THEN outcome[s].val = <<>>
                   ELSE \E i \in hits : /\ \A j \in hits : i <= j
                                        /\ outcome[s].val = <<l[i]>>

\* The step in which a call of s that timed out leaves execute_command.
TimedOutLeaves(s) ==
    /\ pc[s] = "exec_exit" /\ pend[s].exc = "TimeoutError"
    /\ pc'[s] = "idle"

\* C12 as stated: on timeout expiry execute_command fails with TimeoutError
\* carrying the timeout, and does nothing to the process channel.
C12_TimeoutLeavesChannel ==
    [][\A s \in Sessions :
          TimedOutLeaves(s)
          => /\ outcome'[s].exc = "TimeoutError" /\ outcome'[s].val = call[s].timeout
             /\ proc'[s] = proc[s]]_vars

\* C12 as amended: on timeout expiry execute_command fails with TimeoutError
\* carrying the timeout; it sends nothing to the remote process, whose state
\* stays what the transport made it, but leaving the async-with of line 144
\* closes the process channel before the error reaches the caller.
C12_TimeoutClosesChannelOnly ==
    [][\A s \in Sessions :
          TimedOutLeaves(s)
          => /\ outcome'[s].exc = "TimeoutError" /\ outcome'[s].val = call[s].timeout
             /\ proc[s].chan = "open"
             /\ proc'[s] = [proc[s] EXCEPT !.chan = "closed"]]_vars

\* A call with timeout 1 timed out on a command still running: the error
\* carries 1, the channel is closed, the command is still running.
C12_Witness ==
    /\ Done("s1", "execute") /\ outcome["s1"].exc = "TimeoutError"
    /\ outcome["s1"].val = <<1>>
    /\ proc["s1"].chan = "closed" /\ proc["s1"].state = "running"

\* UTF-8 with replacement, position by position: what byte i of bs gives.
Piece(bs, i) ==
    IF bs[i] < 128 THEN <<bs[i]>>
    ELSE IF bs[i] \in 194..223 /\ i < Len(bs) /\ bs[i + 1] \in 128..191
         THEN <<((bs[i] % 32) * 64) + (bs[i + 1] % 64)>>
    ELSE IF bs[i] \in 128..191 /\ i > 1 /\ bs[i - 1] \in 194..223 THEN <<>>
    ELSE <<65533>>
RECURSIVE Pieces(_, _)
Pieces(bs, i) == IF i > Len(bs) THEN <<>> ELSE Piece(bs, i) \o Pieces(bs, i + 1)

\* C13: an execute_command call with wait_for_response=true and no timeout
\* that returns for a command that ran to completion returns the command's
\* exit status and its whole standard output, bytes decoded as UTF-8 with
\* replacement and text unchanged; standard error is no part of the result.
C13_WaitResult ==
    \A s \in Sessions :
        ( /\ Done(s, "execute") /\ call[s].wait /\ call[s].timeout = <<>>
          /\ outcome[s].kind = "return" /\ proc[s].state = "exited" )
        => /\ outcome[s].val.status = proc[s].exit /\ proc[s].exit # <<>>
           /\ outcome[s].val.out = IF proc[s].out.type = "bytes"
                                   THEN Pieces(proc[s].out.data, 1)
                                   ELSE proc[s].out.data
           /\ DOMAIN outcome[s].val = {"out", "status", "time"}

\* A command wrote the bytes C3 A9 to standard output and something to
\* standard error and exited with 1: the call returned the text e-acute.
C13_Witness ==
    /\ Done("s1", "execute") /\ call["s1"].wait /\ call["s1"].timeout = <<>>
    /\ proc["s1"].out = [type |-> "bytes", data |-> <<195, 169>>]
    /\ proc["s1"].err.data # <<>>
    /\ outcome["s1"].kind = "return"
    /\ outcome["s1"].val = [out |-> <<233>>, status |-> <<1>>, time |-> 0]

WaitSteps == <<"wait", "stdout", "stderr", "status">>

\* C15: in wait mode execute_command takes from the process channel, in
\* this order: the end of the wait, standard output, standard error, the
\* exit status, and then returns; nothing is read before the wait has ended
\* (the command has exited, or the connection loss has closed the channel),
\* and nothing is read when the wait ended by timeout.
C15_WaitOrder ==
    \A s \in Sessions :
        (call[s].op = "execute" /\ call[s].wait)
        => LET r == proc[s].reads
           IN  /\ Len(r) <= Len(WaitSteps) /\ r = SubSeq(WaitSteps, 1, Len(r))
               /\ r # <<>> => proc[s].state \in {"exited", "lost"}
               /\ pend[s].exc = "TimeoutError" => r = <<>>
               /\ pend[s].kind = "return" => r = WaitSteps
               /\ (pc[s] = "idle" /\ outcome[s].kind = "return") => r = WaitSteps

\* A waited call returned for a command that exited, with all four steps taken.
C15_Witness ==
    /\ Done("s1", "execute") /\ call["s1"].wait /\ outcome["s1"].kind = "return"
    /\ proc["s1"].state = "exited" /\ proc["s1"].reads = WaitSteps

\* A call of s starts on a session that disconnect_ssh has just closed.
IssuedAfterDisconnect(s) ==
    /\ call[s].op = "disconnect" /\ pc[s] = "idle" /\ outcome[s].kind = "return"
    /\ conn[s] = "closed"
    /\ pc'[s] \in {"exec_open", "sftp_open"}

\* Session s gets a process channel or a file-transfer channel in this step.
ChannelOpens(s) ==
    \/ proc[s].chan # "open" /\ proc'[s].chan = "open"
    \/ sftp[s] # "open" /\ sftp'[s] = "open"

\* C14 as stated: once disconnect_ssh has closed a session, no operation is
\* issued against it.
C14_NoCallAfterDisconnect ==
    [][\A s \in Sessions : ~IssuedAfterDisconnect(s)]_vars

\* C14 as amended: nothing keeps a caller from calling an operation on a
\* closed session, but no channel is ever opened on a session that is not
\* open: there the attempt to open one ends the call at once, execute_command
\* with ExecutionError wrapping the transport's ChannelOpenError.
C14_NoChannelOnClosedSession ==
    [][\A s \in Sessions :
          /\ ChannelOpens(s) => conn[s] = "open"
          /\ (pc[s] \in {"exec_open", "sftp_open"} /\ conn[s] # "open" /\ pc'[s] # pc[s])
                => /\ pc'[s] = "idle" /\ outcome'[s].kind # "none"
                   /\ proc'[s].chan = "none" /\ sftp'[s] = "none"
                   /\ call[s].op = "execute"
                        => /\ outcome'[s].exc = "ExecutionError"
                           /\ outcome'[s].cause = "ChannelOpenError"]_vars

\* execute_command was called on a closed session: no channel, ExecutionError.
C14_Witness ==
    /\ Done("s1", "execute") /\ conn["s1"] = "closed" /\ proc["s1"].chan = "none"
    /\ outcome["s1"].exc = "ExecutionError" /\ outcome["s1"].cause = "ChannelOpenError"

\* The operations that work through a channel of the session.
ChannelOps == {"execute", "upload", "download", "check", "find"}

\* C17: when an operation has returned or raised, no channel of its session
\* is open: the process channel of execute_command and the file-transfer
\* channel of the four file operations are closed on every exit path.
C17_NoChannelLeftOpen ==
    \A s \in Sessions :
        pc[s] = "idle" => proc[s].chan # "open" /\ sftp[s] # "open"

\* upload_file swallowed a protocol error and returned False, channel closed.
C17_Witness ==
    /\ Done("s1", "upload") /\ outcome["s1"].kind = "return"
    /\ outcome["s1"].val = FALSE /\ pend["s1"].kind = "raise"
    /\ sftp["s1"] = "closed"

\* C18: no step of execute_command, upload_file, download_file,
\* check_remote_file or find_file changes the session's open/closed state,
\* and a session leaves the open state only by disconnect_ssh's close() or
\* by the loss of the connection.
C18_OnlyDisconnectCloses ==
    [][\A s \in Sessions :
          /\ (pc'[s] # pc[s] /\ call'[s].op \in ChannelOps) => conn'[s] = conn[s]
          /\ (conn[s] = "open" /\ conn'[s] # "open")
                => \/ call[s].op = "disconnect" /\ pc[s] = "disc_close"
                   \/ pc'[s] = pc[s] /\ conn'[s] = "closed"]_vars

\* execute_command timed out on an open session, and the session is still open.
C18_Witness ==
    /\ Done("s1", "execute") /\ outcome["s1"].exc = "TimeoutError"
    /\ proc["s1"].chan = "closed" /\ conn["s1"] = "open"

\* Nothing of session t changes in this step.
Same(t) ==
    /\ pc'[t] = pc[t] /\ conn'[t] = conn[t] /\ proc'[t] = proc[t] /\ sftp'[t] = sftp[t]
    /\ facts'[t] = facts[t] /\ call'[t] = call[t] /\ pend'[t] = pend[t]
    /\ outcome'[t] = outcome[t]

\* C16: with the operations of two sessions interleaved in any order, every
\* step changes the state and the channels of one session only, and each
\* finished call has the outcome that its own session's call and process
\* give it when the session runs alone (the laws of C1, C2, C3 and C13).
C16_SessionsIndependent ==
    [][/\ \E s \in Sessions : \A t \in Sessions \ {s} : Same(t)
       /\ C1_TimeoutDecidesWait' /\ C2_ErrorKinds' /\ C3_NoWaitResult'
       /\ C13_WaitResult']_vars

\* A command of s1 has returned on its open session while disconnect_ssh is
\* halfway through closing s2.
C16_Witness ==
    /\ Done("s1", "execute") /\ outcome["s1"].kind = "return" /\ conn["s1"] = "open"
    /\ pc["s2"] = "disc_wait" /\ conn["s2"] = "closing"

====
